---------------------------- MODULE Spec2Model ----------------------------
(***************************************************************************)
(* A model of generate_interactive_graph.py: the conversion of a DOT graph *)
(* into an interactive HTML page.                                          *)
(*                                                                         *)
(* Python strings are sequences of one-character strings, so that strip,   *)
(* startswith, rfind, slicing and float() are computed character by        *)
(* character.  A Python value is a record [t, s]: t = "str" with the       *)
(* characters in s, or t = "None" / "int" (s empty) for a non-string.      *)
(*                                                                         *)
(* The program is a straight pipeline; each stage is modelled by its own   *)
(* specification over its own variables (the variables of the other stages *)
(* rest at their idle values):                                             *)
(*   SpecClean   clean_attribute                                           *)
(*   SpecScene   the node and edge loops of create_interactive_graph       *)
(*   SpecColors  generate_group_styles / generate_unique_colors            *)
(*   SpecParse   the cluster extraction of parse_dot_file                  *)
(*   SpecMain    main, the render step and inject_custom_js                *)
(*   SpecClick   the injected click handler running in the browser         *)
(***************************************************************************)
EXTENDS Integers, Sequences, FiniteSets, TLC

VARIABLES
    \* clean_attribute
    value, result,
    \* create_interactive_graph, node and edge loops
    sceneStatus, data, visual, nAdded,
    \* generate_group_styles, two runs of the program
    clusters1, styles1, clusters2, styles2,
    \* parse_dot_file
    dot, clusters, parsePc,
    \* main / render / inject_custom_js
    pc, stagesRun, exitStatus, html, htmlBefore, openedForWrite, injectOutcome,
    \* the injected click handler
    edges, nodesHidden, edgesHidden, click1, click2, prev1, prev2

cleanVars  == <<value, result>>
sceneVars  == <<sceneStatus, data, visual, nAdded>>
colorVars  == <<clusters1, styles1, clusters2, styles2>>
parseVars  == <<dot, clusters, parsePc>>
mainVars   == <<pc, stagesRun, exitStatus, html, htmlBefore, openedForWrite,
                injectOutcome>>
clickVars  == <<edges, nodesHidden, edgesHidden, click1, click2, prev1, prev2>>
vars == <<cleanVars, sceneVars, colorVars, parseVars, mainVars, clickVars>>

\* What a stage leaves alone: the variables of the other stages.
cleanFrame == <<sceneVars, colorVars, parseVars, mainVars, clickVars>>
sceneFrame == <<cleanVars, colorVars, parseVars, mainVars, clickVars>>
colorFrame == <<cleanVars, sceneVars, parseVars, mainVars, clickVars>>
parseFrame == <<cleanVars, sceneVars, colorVars, mainVars, clickVars>>
mainFrame  == <<cleanVars, sceneVars, colorVars, parseVars, clickVars>>
clickFrame == <<cleanVars, sceneVars, colorVars, parseVars, mainVars>>

-----------------------------------------------------------------------------
(* Python strings and values *)

Q == "\""

Str(s) == [t |-> "str", s |-> s]
None == [t |-> "None", s |-> <<>>]
IntVal == [t |-> "int", s |-> <<>>]

\* All sequences over alphabet of length at most n.
SeqsUpTo(alphabet, n) == UNION {[1..k -> alphabet] : k \in 0..n}

RECURSIVE lstrip(_, _)
lstrip(s, chars) ==
    IF s # <<>> /\ Head(s) \in chars THEN lstrip(Tail(s), chars) ELSE s

RECURSIVE rstrip(_, _)
rstrip(s, chars) ==
    IF s # <<>> /\ s[Len(s)] \in chars
    THEN rstrip(SubSeq(s, 1, Len(s) - 1), chars)
    ELSE s

\* str.strip(chars): every leading and every trailing character that is in
\* chars is removed.
strip(s, chars) == rstrip(lstrip(s, chars), chars)

\* str.startswith(prefix)
startswith(s, prefix) ==
    Len(s) >= Len(prefix) /\ SubSeq(s, 1, Len(prefix)) = prefix

\* str.endswith(suffix)
endswith(s, suffix) ==
    Len(s) >= Len(suffix)
    /\ SubSeq(s, Len(s) - Len(suffix) + 1, Len(s)) = suffix

-----------------------------------------------------------------------------
(* clean_attribute *)

clean_attribute(v) == IF v.t = "str" THEN Str(strip(v.s, {Q})) ELSE v

MaxValueLen == 4
ValueAlphabet == {Q, "a", "<"}
Values == {Str(s) : s \in SeqsUpTo(ValueAlphabet, MaxValueLen)} \cup {None, IntVal}

NotRun == [t |-> "notrun", s |-> <<>>]

CleanIdle == value = None /\ result = NotRun

CleanInit == value \in Values /\ result = NotRun

\* A caller passes value to clean_attribute and keeps what it returns.
CallClean ==
    /\ result = NotRun
    /\ result' = clean_attribute(value)
    /\ UNCHANGED <<value, cleanFrame>>

\* The next attribute value is read.
NextValue ==
    /\ result # NotRun
    /\ value' \in Values
    /\ result' = NotRun
    /\ UNCHANGED cleanFrame

-----------------------------------------------------------------------------
(* float() and int() on the strings the scene builder converts *)

Digits == {"0", "1", "2", "3", "4", "5", "6", "7", "8", "9"}

DigitVal(c) ==
    CASE c = "0" -> 0 [] c = "1" -> 1 [] c = "2" -> 2 [] c = "3" -> 3
      [] c = "4" -> 4 [] c = "5" -> 5 [] c = "6" -> 6 [] c = "7" -> 7
      [] c = "8" -> 8 [] c = "9" -> 9

\* Floats are kept in fixed point: a finite float is Scale times its value.
Scale == 1000

Fin(v) == [k |-> "fin", v |-> v]
Inf(sign) == [k |-> "inf", v |-> sign]
NaN == [k |-> "nan", v |-> 0]
ValueError == [k |-> "ValueError", v |-> 0]
OverflowError == [k |-> "OverflowError", v |-> 0]

RECURSIVE DigitsValue(_)
DigitsValue(s) ==
    IF s = <<>> THEN 0
    ELSE 10 * DigitsValue(SubSeq(s, 1, Len(s) - 1)) + DigitVal(s[Len(s)])

\* The fraction digits f as a multiple of 1/Scale (digits past the third
\* are below the resolution of the fixed point).
FractionValue(f) ==
    LET d(i) == IF i <= Len(f) THEN DigitVal(f[i]) ELSE 0
    IN  100 * d(1) + 10 * d(2) + d(3)

AllDigits(s) == \A i \in 1..Len(s) : s[i] \in Digits

\* The unsigned part of a float literal: inf, infinity, nan, or decimal
\* digits with at most one point and at least one digit.  (Exponent notation
\* needs a digit on both sides of an "e"; no input of the model has one.)
ParseUnsigned(s, sign) ==
    LET dots == {i \in 1..Len(s) : s[i] = "."}
    IN  IF s \in {<<"i", "n", "f">>, <<"i", "n", "f", "i", "n", "i", "t", "y">>}
        THEN Inf(sign)
        ELSE IF s = <<"n", "a", "n">> THEN NaN
        ELSE IF s = <<>> THEN ValueError
        ELSE IF dots = {} THEN
            IF AllDigits(s) THEN Fin(sign * Scale * DigitsValue(s)) ELSE ValueError
        ELSE IF Cardinality(dots) > 1 THEN ValueError
        ELSE LET p == CHOOSE i \in dots : TRUE
                 ip == SubSeq(s, 1, p - 1)
                 fp == SubSeq(s, p + 1, Len(s))
             IN  IF AllDigits(ip) /\ AllDigits(fp) /\ Len(ip) + Len(fp) > 0
                 THEN Fin(sign * (Scale * DigitsValue(ip) + FractionValue(fp)))
                 ELSE ValueError

\* float(s) for a string s: surrounding blanks are ignored, one sign is
\* allowed; a string that is no float literal raises ValueError.
float(s) ==
    LET b == strip(s, {" "})
    IN  IF b # <<>> /\ Head(b) = "-" THEN ParseUnsigned(Tail(b), -1)
        ELSE IF b # <<>> /\ Head(b) = "+" THEN ParseUnsigned(Tail(b), 1)
        ELSE ParseUnsigned(b, 1)

\* int(x) for a float x: truncation towards zero; int(inf) raises
\* OverflowError and int(nan) raises ValueError.  An exception of float()
\* propagates through int(float(...)).
int(x) ==
    CASE x.k = "fin" ->
            [k |-> "int",
             v |-> IF x.v >= 0 THEN x.v \div Scale ELSE -((-x.v) \div Scale)]
      [] x.k = "inf" -> OverflowError
      [] x.k = "nan" -> ValueError
      [] OTHER -> x

-----------------------------------------------------------------------------
(* create_interactive_graph: the node loop and the edge loop *)

Quoted(s) == <<Q>> \o s \o <<Q>>

sBox == <<"b", "o", "x">>
sEllipse == <<"e", "l", "l", "i", "p", "s", "e">>
sDashed == <<"d", "a", "s", "h", "e", "d">>
sSolid == <<"s", "o", "l", "i", "d">>
sNormal == <<"n", "o", "r", "m", "a", "l">>
sDefault == <<"d", "e", "f", "a", "u", "l", "t">>
sHelvetica == <<"H", "e", "l", "v", "e", "t", "i", "c", "a">>
sDefaultFill == <<"#", "9", "7", "C", "2", "F", "C">>
sDefaultEdgeColor == <<"#", "8", "4", "8", "4", "8", "4">>

\* dict.get(key, default) on an attribute dictionary d (a function from the
\* attribute names present to their raw strings).
Get(d, key, default) == IF key \in DOMAIN d THEN Str(d[key]) ELSE default

\* The try/except around int(float(fontsize)): only ValueError is caught.
FontSize(fontsize) ==
    LET size == int(float(fontsize.s))
    IN  IF size.k = "ValueError" THEN [k |-> "int", v |-> 14] ELSE size

\* shape = 'box' if data.get('shape') == 'box' else 'ellipse'
Shape(d) == IF Get(d, "shape", None) = Str(sBox) THEN sBox ELSE sEllipse

\* One iteration of the node loop: the keyword arguments of net.add_node, or
\* the exception that leaves the loop.
BuildNode(node, d, cluster_map) ==
    LET label == clean_attribute(Get(d, "label", Str(node)))
        title == clean_attribute(Get(d, "tooltip", Str(<<>>)))
        url == clean_attribute(Get(d, "URL", Str(<<>>)))
        color == clean_attribute(Get(d, "fillcolor", Str(sDefaultFill)))
        shape == Shape(d)
        font == clean_attribute(Get(d, "fontname", Str(sHelvetica)))
        fontsize == clean_attribute(Get(d, "fontsize", Str(<<"1", "4">>)))
        size == FontSize(fontsize)
        node_color == IF "fillcolor" \in DOMAIN d THEN color.s ELSE sDefaultFill
        group == IF node \in DOMAIN cluster_map THEN cluster_map[node] ELSE sDefault
    IN  IF size.k # "int"
        THEN [raised |-> size.k]
        ELSE [raised |-> "no", id |-> node, label |-> strip(label.s, {"<", ">"}),
              title |-> title.s, url |-> url.s, color |-> node_color,
              shape |-> shape, font |-> [face |-> font.s, size |-> size.v],
              group |-> group]

\* The try/except around float(penwidth_str): only ValueError is caught.
Width(penwidth_str) ==
    LET width == float(penwidth_str.s)
    IN  IF width.k = "ValueError" THEN Fin(Scale) ELSE width

\* One iteration of the edge loop: the keyword arguments of net.add_edge.
BuildEdge(source, target, d) ==
    LET label == clean_attribute(Get(d, "label", Str(<<>>)))
        title == clean_attribute(Get(d, "tooltip", Str(<<>>)))
        url == clean_attribute(Get(d, "URL", Str(<<>>)))
        color == clean_attribute(Get(d, "color", Str(sDefaultEdgeColor)))
        arrows == clean_attribute(Get(d, "arrowhead", Str(sNormal)))
        style == clean_attribute(Get(d, "style", Str(sSolid)))
        penwidth_str == clean_attribute(Get(d, "penwidth", Str(<<"1", ".", "0">>)))
        width == Width(penwidth_str)
    IN  [raised |-> "no", source |-> source, target |-> target,
         title |-> title.s, color |-> color.s, arrows |-> arrows.s,
         width |-> width, dashes |-> (style.s = sDashed), smooth |-> TRUE]

\* The attribute dictionaries the loops are run on.  Absent marks an
\* attribute the DOT file does not set; pydot hands a quoted DOT value over
\* with its quotes.
Absent == <<"absent">>

Present(f) == [key \in {a \in DOMAIN f : f[a] # Absent} |-> f[key]]

\* At most MaxAttrs attributes are set on one node or edge.
MaxAttrs == 2

AtMost(S) == {d \in S : Cardinality(DOMAIN d) <= MaxAttrs}

NodeDatas ==
    AtMost({Present(f) : f \in
        [label : {Absent, <<"A">>, Quoted(<<"A">>), <<"<", "A", ">">>},
         tooltip : {Absent, Quoted(<<"t">>)},
         URL : {Absent, Quoted(<<"u">>)},
         fillcolor : {Absent, <<"r", "e", "d">>, Quoted(<<"#", "1">>)},
         shape : {Absent, sBox, Quoted(sBox), <<"e", "g", "g">>},
         fontname : {Absent, Quoted(<<"F">>)},
         fontsize : {Absent, <<"1", "2">>, Quoted(<<"1", "2", ".", "7">>),
                     <<"-", "3", ".", "5">>, <<"x">>, <<>>, Quoted(<<>>),
                     <<"i", "n", "f">>, <<"n", "a", "n">>}]})

EdgeDatas ==
    AtMost({Present(f) : f \in
        [label : {Absent, Quoted(<<"L">>)},
         tooltip : {Absent, Quoted(<<"t">>)},
         URL : {Absent, Quoted(<<"u">>)},
         color : {Absent, <<"r", "e", "d">>, Quoted(<<"#", "1">>)},
         arrowhead : {Absent, <<"v", "e", "e">>, Quoted(<<"v", "e", "e">>)},
         style : {Absent, sDashed, Quoted(sDashed), <<"d", "o", "t">>},
         penwidth : {Absent, <<"2">>, Quoted(<<"2", ".", "5">>), <<"-", "2">>,
                     <<"x">>, Quoted(<<>>), <<"i", "n", "f">>,
                     <<"n", "a", "n">>}]})

NodeIds == {<<"n">>, <<"m">>}

\* The cluster map the loop looks node up in: no entry, or the label G.
ClusterMaps(node) == {<<>>, [x \in {node} |-> <<"G">>]}

MaxNodes == 2
MaxEdges == 1

NoData == [kind |-> "none"]
NoVisual == [raised |-> "none"]

SceneIdle ==
    /\ sceneStatus = "idle"
    /\ data = NoData
    /\ visual = NoVisual
    /\ nAdded = [nodes |-> 0, edges |-> 0]

SceneInit ==
    /\ sceneStatus = "nodes"
    /\ data = NoData
    /\ visual = NoVisual
    /\ nAdded = [nodes |-> 0, edges |-> 0]

\* One iteration of "for node, data in nx_graph.nodes(data=True)".  An
\* exception that no except clause catches ends create_interactive_graph.
AddNode ==
    /\ sceneStatus = "nodes"
    /\ nAdded.nodes < MaxNodes
    /\ \E node \in NodeIds, d \in NodeDatas :
         \E cluster_map \in ClusterMaps(node) :
            LET v == BuildNode(node, d, cluster_map)
            IN  /\ data' = [kind |-> "node", node |-> node, attrs |-> d,
                            clusters |-> cluster_map]
                /\ visual' = v
                /\ sceneStatus' = IF v.raised = "no" THEN "nodes" ELSE "aborted"
                /\ nAdded' = IF v.raised = "no"
                             THEN [nAdded EXCEPT !.nodes = @ + 1]
                             ELSE nAdded
    /\ UNCHANGED sceneFrame

\* The node loop is exhausted; the edge loop starts.
EndNodeLoop ==
    /\ sceneStatus = "nodes"
    /\ sceneStatus' = "edges"
    /\ UNCHANGED <<data, visual, nAdded, sceneFrame>>

\* One iteration of "for source, target, data in nx_graph.edges(data=True)".
AddEdge ==
    /\ sceneStatus = "edges"
    /\ nAdded.edges < MaxEdges
    /\ \E source \in NodeIds, target \in NodeIds, d \in EdgeDatas :
         LET v == BuildEdge(source, target, d)
         IN  /\ data' = [kind |-> "edge", source |-> source, target |-> target,
                         attrs |-> d]
             /\ visual' = v
             /\ nAdded' = [nAdded EXCEPT !.edges = @ + 1]
    /\ UNCHANGED <<sceneStatus, sceneFrame>>

\* The edge loop is exhausted; the scene is handed to the renderer.
EndEdgeLoop ==
    /\ sceneStatus = "edges"
    /\ sceneStatus' = "built"
    /\ UNCHANGED <<data, visual, nAdded, sceneFrame>>

-----------------------------------------------------------------------------
(* generate_group_styles and generate_unique_colors *)

HexDigit(d) ==
    CASE d = 0 -> "0" [] d = 1 -> "1" [] d = 2 -> "2" [] d = 3 -> "3"
      [] d = 4 -> "4" [] d = 5 -> "5" [] d = 6 -> "6" [] d = 7 -> "7"
      [] d = 8 -> "8" [] d = 9 -> "9" [] d = 10 -> "a" [] d = 11 -> "b"
      [] d = 12 -> "c" [] d = 13 -> "d" [] d = 14 -> "e" [] d = 15 -> "f"

\* "#%06x" % n for 0 <= n <= 0xFFFFFF
HexColor(n) ==
    <<"#", HexDigit((n \div 1048576) % 16), HexDigit((n \div 65536) % 16),
      HexDigit((n \div 4096) % 16), HexDigit((n \div 256) % 16),
      HexDigit((n \div 16) % 16), HexDigit(n % 16)>>

\* What random.randint(0, 0xFFFFFF) returns on its first calls after
\* random.seed(42): the generator is reseeded on every call of
\* generate_unique_colors, so every call draws this same stream.
SeededRandInts == <<3735650, 839221, 9228452, 8217207, 7489709>>

generate_unique_colors(n) == [i \in 1..n |-> HexColor(SeededRandInts[i])]

sBorder == <<"#", "2", "B", "7", "C", "E", "9">>

\* set(clusters.values())
unique_clusters(cluster_map) == {cluster_map[node] : node \in DOMAIN cluster_map}

\* The orders in which iterating a set of strings can yield its elements:
\* the order follows the strings' hashes, which are salted anew in every
\* interpreter process, and the insertion history of the set.
IterationOrders(S) ==
    {o \in [1..Cardinality(S) -> S] : \A i, j \in DOMAIN o : i # j => o[i] # o[j]}

\* generate_group_styles(clusters), with the set iterated in the order given:
\* zip pairs the i-th label yielded with the i-th colour.
generate_group_styles(cluster_map, order) ==
    LET colors == generate_unique_colors(Cardinality(unique_clusters(cluster_map)))
    IN  [cluster \in unique_clusters(cluster_map) |->
            LET i == CHOOSE j \in DOMAIN order : order[j] = cluster
            IN  [color |-> [background |-> colors[i], border |-> sBorder]]]

ColorNodes == {<<"a">>, <<"b">>, <<"c">>}
ColorLabels == {<<"X">>, <<"Y">>, <<"Z">>}

\* The cluster maps: every node has at most one label.
ColorClusterMaps ==
    UNION {[S -> ColorLabels] : S \in SUBSET ColorNodes}

StylesNotRun == [ran |-> FALSE, group_styles |-> <<>>]

ColorIdle ==
    /\ clusters1 = <<>> /\ styles1 = StylesNotRun
    /\ clusters2 = <<>> /\ styles2 = StylesNotRun

ColorInit == ColorIdle

\* One run of the program computes the group styles of its cluster map.
Run1 ==
    /\ ~styles1.ran
    /\ \E cluster_map \in ColorClusterMaps :
         \E order \in IterationOrders(unique_clusters(cluster_map)) :
            /\ clusters1' = cluster_map
            /\ styles1' = [ran |-> TRUE,
                            group_styles |-> generate_group_styles(cluster_map, order)]
    /\ UNCHANGED <<clusters2, styles2, colorFrame>>

\* Another run of the program, in another interpreter process.
Run2 ==
    /\ ~styles2.ran
    /\ \E cluster_map \in ColorClusterMaps :
         \E order \in IterationOrders(unique_clusters(cluster_map)) :
            /\ clusters2' = cluster_map
            /\ styles2' = [ran |-> TRUE,
                            group_styles |-> generate_group_styles(cluster_map, order)]
    /\ UNCHANGED <<clusters1, styles1, colorFrame>>

-----------------------------------------------------------------------------
(* parse_dot_file: the cluster map *)

\* A pydot graph as parse_dot_file reads it: get_subgraphs() yields the
\* subgraphs declared directly in a graph, get_nodes() the nodes declared
\* directly in a subgraph, get_label() the label attribute or None.  A
\* subgraph is a record [name, label, nodes, subgraphs].
sCluster == <<"c", "l", "u", "s", "t", "e", "r", "_">>

ListOf(s) == [t |-> "list", s |-> s]

\* The truth value of a label: None and the empty string are false.
Truthy(v) == v.t # "None" /\ ~(v.t = "str" /\ v.s = <<>>)

\* Lines 43-47: the label of a cluster subgraph.
ClusterLabel(subgraph, cluster_name) ==
    LET got == subgraph.label
        cluster_label == IF got.t = "list" THEN Str(got.s) ELSE got
    IN  IF Truthy(cluster_label) THEN strip(cluster_label.s, {Q}) ELSE cluster_name

\* Lines 49-52: the key of a node.
NodeKey(name) ==
    LET node_name == strip(name, {Q})
    IN  IF startswith(node_name, <<Q>>) /\ endswith(node_name, <<Q>>)
        THEN SubSeq(node_name, 2, Len(node_name) - 1)
        ELSE node_name

\* d with d[key] = val: a dictionary assignment.
Assign(d, key, val) ==
    [x \in DOMAIN d \cup {key} |-> IF x = key THEN val ELSE d[x]]

\* Lines 48-53: the loop over subgraph.get_nodes(), from the i-th node on.
RECURSIVE AddNodes(_, _, _, _)
AddNodes(d, nodes, i, cluster_label) ==
    IF i > Len(nodes) THEN d
    ELSE AddNodes(Assign(d, NodeKey(nodes[i]), cluster_label), nodes, i + 1,
                  cluster_label)

\* Lines 40-53: the body of the loop for one subgraph.
ScanSubgraph(d, subgraph) ==
    LET cluster_name == strip(subgraph.name, {Q})
    IN  IF startswith(cluster_name, sCluster)
        THEN AddNodes(d, subgraph.nodes, 1, ClusterLabel(subgraph, cluster_name))
        ELSE d

\* Lines 38-53: the loop over pydot_graph.get_subgraphs(), from the i-th on.
RECURSIVE ScanSubgraphs(_, _, _)
ScanSubgraphs(d, subgraphs, i) ==
    IF i > Len(subgraphs) THEN d
    ELSE ScanSubgraphs(ScanSubgraph(d, subgraphs[i]), subgraphs, i + 1)

EmptyDict == [x \in {} |-> <<>>]

ExtractClusters(graph) == ScanSubgraphs(EmptyDict, graph.subgraphs, 1)

\* The DOT files: at most MaxSubgraphs subgraphs in the graph, each with at
\* most one subgraph nested in it.
MaxSubgraphs == 2

SubgraphNames ==
    {sCluster \o <<"0">>, Quoted(sCluster \o <<"1">>), <<"s">>}
SubgraphLabels == {None, Str(Quoted(<<"L">>)), ListOf(Quoted(<<"M">>))}
InnerNodeLists == {<<>>, << <<"x">> >>}
OuterNodeLists == {<<>>, << <<"a">> >>, << Quoted(<<"b">>), <<"a">> >>}

InnerSubgraphs ==
    [name : SubgraphNames, label : {None, Str(Quoted(<<"K">>))},
     nodes : InnerNodeLists, subgraphs : {<<>>}]

OuterSubgraphs ==
    [name : SubgraphNames, label : SubgraphLabels, nodes : OuterNodeLists,
     subgraphs : {<<>>} \cup {<<g>> : g \in InnerSubgraphs}]

DotGraphs ==
    {[subgraphs |-> s] : s \in SeqsUpTo(OuterSubgraphs, MaxSubgraphs)}

ParseIdle == dot = [subgraphs |-> <<>>] /\ clusters = EmptyDict /\ parsePc = "idle"

ParseInit == dot \in DotGraphs /\ clusters = EmptyDict /\ parsePc = "parse"

\* parse_dot_file, after pydot has read the file: the cluster map is built.
ParseDot ==
    /\ parsePc = "parse"
    /\ clusters' = ExtractClusters(dot)
    /\ parsePc' = "done"
    /\ UNCHANGED <<dot, parseFrame>>

-----------------------------------------------------------------------------
(* main, the render step and inject_custom_js *)

sBodyClose == <<"<", "/", "b", "o", "d", "y", ">">>

\* The injected block: the literal of lines 256-294, each of its three parts
\* (the opening tag, the script text, the closing tag) written as one item.
custom_js == <<"<script type=\"text/javascript\">", "toggleNode", "</script>">>

Min(a, b) == IF a < b THEN a ELSE b
Max(a, b) == IF a > b THEN a ELSE b

\* s[:i] and s[i:] with Python's indices: from 0, and from the end when
\* negative.
SliceIndex(s, i) == IF i < 0 THEN Max(Len(s) + i, 0) ELSE Min(i, Len(s))
SliceTo(s, i) == SubSeq(s, 1, SliceIndex(s, i))
SliceFrom(s, i) == SubSeq(s, SliceIndex(s, i) + 1, Len(s))

RECURSIVE rfindFrom(_, _, _)
rfindFrom(s, sub, i) ==
    IF i < 0 THEN -1
    ELSE IF SubSeq(s, i + 1, i + Len(sub)) = sub THEN i
    ELSE rfindFrom(s, sub, i - 1)

\* The first occurrence instead of the last one.
RECURSIVE findFrom(_, _, _)
findFrom(s, sub, i) ==
    IF i + Len(sub) > Len(s) THEN -1
    ELSE IF SubSeq(s, i + 1, i + Len(sub)) = sub THEN i
    ELSE findFrom(s, sub, i + 1)

rfind_first(s, sub) == findFrom(s, sub, 0)

\* str.rfind(sub): the highest index (from 0) at which sub occurs in s, or -1.
rfind(s, sub) == rfindFrom(s, sub, Len(s) - Len(sub))

\* The check of line 298 left out.
TagMissing_never(insert_position) == FALSE

\* Line 298: if insert_position == -1
TagMissing(insert_position) == insert_position = -1

\* Line 303
Inserted(html_content, insert_position) ==
    SliceTo(html_content, insert_position) \o custom_js
        \o SliceFrom(html_content, insert_position)

\* An except clause that reports the error and goes on.
ExitOnRenderError_report(outcome) == outcome = "AttributeError"

\* Lines 231-239: both except clauses of the render step end in sys.exit(1).
ExitOnRenderError(outcome) == outcome \in {"AttributeError", "Exception"}

\* What net.show can have written: the items are laid end to end.
MaxChunks == 3
Chunks == {sBodyClose, <<"<", "/", "b", "o", "d">>, <<"y", ">">>, <<"x">>}

RECURSIVE Flatten(_)
Flatten(ss) == IF ss = <<>> THEN <<>> ELSE Head(ss) \o Flatten(Tail(ss))

Contents == {Flatten(ss) : ss \in SeqsUpTo(Chunks, MaxChunks)}

NoFile == <<"no file">>
NotExited == -1

MainIdle ==
    /\ pc = "idle" /\ stagesRun = <<>> /\ exitStatus = NotExited
    /\ html = NoFile /\ htmlBefore = NoFile
    /\ openedForWrite = FALSE /\ injectOutcome = "none"

MainInit ==
    /\ pc = "args" /\ stagesRun = <<>> /\ exitStatus = NotExited
    /\ html = NoFile /\ htmlBefore = NoFile
    /\ openedForWrite = FALSE /\ injectOutcome = "none"

Ran(stage, outcome) == Append(stagesRun, [stage |-> stage, outcome |-> outcome])

\* sys.exit(status), or an exception nothing catches (status 1), or main
\* returning (status 0).
Exit(status) == pc' = "exited" /\ exitStatus' = status

\* Lines 317-319: if len(sys.argv) != 2
CheckArgs ==
    /\ pc = "args"
    /\ \E argc \in 1..3 :
         IF argc # 2
         THEN stagesRun' = Ran("args", "usage") /\ Exit(1)
         ELSE stagesRun' = Ran("args", "ok") /\ pc' = "isfile"
                /\ UNCHANGED exitStatus
    /\ UNCHANGED <<html, htmlBefore, openedForWrite, injectOutcome, mainFrame>>

\* Lines 323-325: if not os.path.isfile(dot_file_path)
CheckFile ==
    /\ pc = "isfile"
    /\ \E isfile \in BOOLEAN :
         IF ~isfile
         THEN stagesRun' = Ran("isfile", "missing") /\ Exit(1)
         ELSE stagesRun' = Ran("isfile", "ok") /\ pc' = "parse"
                /\ UNCHANGED exitStatus
    /\ UNCHANGED <<html, htmlBefore, openedForWrite, injectOutcome, mainFrame>>

\* Line 328 and lines 31-57: parse_dot_file; any Exception ends in
\* sys.exit(1).
Parse ==
    /\ pc = "parse"
    /\ \E outcome \in {"ok", "Exception"} :
         IF outcome # "ok"
         THEN stagesRun' = Ran("parse", outcome) /\ Exit(1)
         ELSE stagesRun' = Ran("parse", "ok") /\ pc' = "build"
                /\ UNCHANGED exitStatus
    /\ UNCHANGED <<html, htmlBefore, openedForWrite, injectOutcome, mainFrame>>

\* Lines 122-228: the scene is built; an OverflowError of the node loop is
\* caught nowhere and ends the interpreter with status 1.
Build ==
    /\ pc = "build"
    /\ \E outcome \in {"ok", "OverflowError"} :
         IF outcome # "ok"
         THEN stagesRun' = Ran("build", outcome) /\ Exit(1)
         ELSE stagesRun' = Ran("build", "ok") /\ pc' = "render"
                /\ UNCHANGED exitStatus
    /\ UNCHANGED <<html, htmlBefore, openedForWrite, injectOutcome, mainFrame>>

\* Lines 231-239: net.show writes the page, or raises.
Render ==
    /\ pc = "render"
    /\ \E outcome \in {"ok", "AttributeError", "Exception"} :
         /\ stagesRun' = Ran("render", outcome)
         /\ IF ExitOnRenderError(outcome)
            THEN Exit(1) /\ UNCHANGED html
            ELSE /\ pc' = "inject"
                 /\ IF outcome = "ok" THEN html' \in Contents ELSE UNCHANGED html
                 /\ UNCHANGED exitStatus
    /\ UNCHANGED <<htmlBefore, openedForWrite, injectOutcome, mainFrame>>

\* Lines 242-311 and the return of main: inject_custom_js.  The file may
\* fail to open for reading or for writing (the exception is caught and
\* reported); main then returns and the interpreter exits with status 0.
Inject ==
    /\ pc = "inject"
    /\ htmlBefore' = html
    /\ \E io \in {"ok", "read_fails", "write_fails"} :
         LET insert_position == rfind(html, sBodyClose)
         IN  IF io = "read_fails"
             THEN /\ injectOutcome' = "read_fails"
                  /\ UNCHANGED <<html, openedForWrite>>
             ELSE IF TagMissing(insert_position)
             THEN /\ injectOutcome' = "no_body"
                  /\ UNCHANGED <<html, openedForWrite>>
             ELSE IF io = "write_fails"
             THEN /\ injectOutcome' = "write_fails"
                  /\ UNCHANGED <<html, openedForWrite>>
             ELSE /\ injectOutcome' = "injected"
                  /\ openedForWrite' = TRUE
                  /\ html' = Inserted(html, insert_position)
    /\ stagesRun' = Ran("inject", injectOutcome')
    /\ Exit(0)
    /\ UNCHANGED mainFrame

-----------------------------------------------------------------------------
(* The injected script: toggleNode and the click listener *)

ClickNodes == {1, 2, 3}
MaxGraphEdges == 2

\* The edges of the page, edge i from edges[i].from to edges[i].to; loops
\* and parallel edges occur.  The toggle reads no order of the edges, so
\* only the graphs whose edges are listed in ascending order are taken.
Rank(e) == 4 * e.from + e.to

Graphs ==
    {g \in SeqsUpTo([from : ClickNodes, to : ClickNodes], MaxGraphEdges) :
        \A i \in DOMAIN g : i > 1 => Rank(g[i - 1]) <= Rank(g[i])}

\* Line 261: network.getConnectedEdges(nodeId), the edges attached to the
\* node, each once.
getConnectedEdges(nodeId) ==
    {e \in DOMAIN edges : edges[e].from = nodeId \/ edges[e].to = nodeId}

\* Line 260: network.getConnectedNodes(nodeId), the node at the other end
\* of each attached edge, each once (a loop yields the node itself).
getConnectedNodes(nodeId) ==
    {IF edges[e].to = nodeId THEN edges[e].from ELSE edges[e].to :
        e \in getConnectedEdges(nodeId)}

\* A toggle that only ever hides.
Toggled_hide(hidden) == "true"

\* Lines 265-271 and 276-282: the new value of the hidden property.
Toggled(hidden) == IF hidden \in {"undefined", "false"} THEN "true" ELSE "false"

Flags == [nodes |-> nodesHidden, edges |-> edgesHidden]

NoClick == {0}

ClickIdle ==
    /\ edges = <<>>
    /\ nodesHidden = <<>> /\ edgesHidden = <<>>
    /\ click1 = NoClick /\ click2 = NoClick
    /\ prev1 = <<>> /\ prev2 = <<>>

\* The page as rendered: no node or edge has a hidden property yet.
ClickInit ==
    /\ edges \in Graphs
    /\ nodesHidden = [n \in ClickNodes |-> "undefined"]
    /\ edgesHidden = [e \in DOMAIN edges |-> "undefined"]
    /\ click1 = NoClick /\ click2 = NoClick
    /\ prev1 = Flags /\ prev2 = Flags

\* Lines 287-292: a click event.  params.nodes holds the nodes under the
\* pointer that the page shows (a hidden node cannot be hit); toggleNode
\* runs only when it holds exactly one.
Click ==
    /\ \E selected \in SUBSET {n \in ClickNodes : nodesHidden[n] # "true"} :
         /\ Cardinality(selected) <= 2
         /\ click1' = selected
         /\ IF Cardinality(selected) = 1
            THEN LET nodeId == CHOOSE n \in selected : TRUE
                 IN  /\ nodesHidden' =
                            [n \in ClickNodes |->
                                IF n \in getConnectedNodes(nodeId)
                                THEN Toggled(nodesHidden[n])
                                ELSE nodesHidden[n]]
                     /\ edgesHidden' =
                            [e \in DOMAIN edges |->
                                IF e \in getConnectedEdges(nodeId)
                                THEN Toggled(edgesHidden[e])
                                ELSE edgesHidden[e]]
            ELSE UNCHANGED <<nodesHidden, edgesHidden>>
    /\ click2' = click1
    /\ prev1' = Flags
    /\ prev2' = prev1
    /\ UNCHANGED <<edges, clickFrame>>

-----------------------------------------------------------------------------
(* Specifications *)

InitClean ==
    CleanInit /\ SceneIdle /\ ColorIdle /\ ParseIdle /\ MainIdle /\ ClickIdle

NextClean == CallClean \/ NextValue

SpecClean == InitClean /\ [][NextClean]_vars

InitScene ==
    SceneInit /\ CleanIdle /\ ColorIdle /\ ParseIdle /\ MainIdle /\ ClickIdle

NextScene == AddNode \/ EndNodeLoop \/ AddEdge \/ EndEdgeLoop

SpecScene == InitScene /\ [][NextScene]_vars

InitColors ==
    ColorInit /\ CleanIdle /\ SceneIdle /\ ParseIdle /\ MainIdle /\ ClickIdle

NextColors == Run1 \/ Run2

SpecColors == InitColors /\ [][NextColors]_vars

InitParse ==
    ParseInit /\ CleanIdle /\ SceneIdle /\ ColorIdle /\ MainIdle /\ ClickIdle

NextParse == ParseDot

SpecParse == InitParse /\ [][NextParse]_vars

InitMain ==
    MainInit /\ CleanIdle /\ SceneIdle /\ ColorIdle /\ ParseIdle /\ ClickIdle

NextMain == CheckArgs \/ CheckFile \/ Parse \/ Build \/ Render \/ Inject

SpecMain == InitMain /\ [][NextMain]_vars

InitClick ==
    ClickInit /\ CleanIdle /\ SceneIdle /\ ColorIdle /\ ParseIdle /\ MainIdle

NextClick == Click

SpecClick == InitClick /\ [][NextClick]_vars

-----------------------------------------------------------------------------
(* Claims about clean_attribute *)

\* What C1 says clean_attribute returns: a string that begins and ends with
\* a double quote loses exactly that one pair; anything else is unchanged.
ExactlyOnePair(v) ==
    IF v.t = "str" /\ Len(v.s) >= 2 /\ Head(v.s) = Q /\ v.s[Len(v.s)] = Q
    THEN Str(SubSeq(v.s, 2, Len(v.s) - 1))
    ELSE v

\* C1: for every value, clean_attribute returns the value with exactly one
\* enclosing pair of double quotes removed when it is a string wrapped in
\* such a pair, and the value itself in every other case.  (The string that
\* is one double quote alone begins and ends with a quote but holds no pair:
\* either reading of the claim is accepted for it.)
C1_CleanRemovesExactlyOnePair ==
    result # NotRun =>
        IF value = Str(<<Q>>)
        THEN result \in {Str(<<Q>>), Str(<<>>)}
        ELSE result = ExactlyOnePair(value)

-----------------------------------------------------------------------------
(* Claims about the scene builder *)

NodeAdded == data.kind = "node" /\ visual.raised = "no"
EdgeAdded == data.kind = "edge" /\ visual.raised = "no"

\* What C7 says the font size is: int(float(fontsize)), or 14 when the
\* attribute is absent or the parse or the truncation fails.
ClaimedFontSize(d) ==
    IF "fontsize" \notin DOMAIN d THEN 14
    ELSE LET x == float(clean_attribute(Str(d["fontsize"])).s)
         IN  IF x.k = "fin" THEN int(x).v ELSE 14

\* What C7 says the line width is: float(penwidth), or 1.0 when the attribute
\* is absent or the parse fails.
ClaimedWidth(d) ==
    IF "penwidth" \notin DOMAIN d THEN Fin(Scale)
    ELSE LET x == float(clean_attribute(Str(d["penwidth"])).s)
         IN  IF x.k = "ValueError" THEN Fin(Scale) ELSE x

\* C7: the numeric coercions never raise or abort scene building: every node
\* gets the font size int(float(fontsize)) or the default 14, every edge the
\* width float(penwidth) or the default 1.0.
C7_CoercionNeverRaises ==
    /\ sceneStatus # "aborted"
    /\ NodeAdded => visual.font.size = ClaimedFontSize(data.attrs)
    /\ EdgeAdded => visual.width = ClaimedWidth(data.attrs)

Requote(d, key) == [d EXCEPT ![key] = Quoted(d[key])]

\* C8: every attribute is cleaned before use, so enclosing any attribute
\* value of a node or an edge in double quotes leaves the visual node or
\* edge the same.
C8_QuotedAndUnquotedAgree ==
    /\ data.kind = "node" =>
         \A key \in DOMAIN data.attrs :
            BuildNode(data.node, Requote(data.attrs, key), data.clusters) = visual
    /\ data.kind = "edge" =>
         \A key \in DOMAIN data.attrs :
            BuildEdge(data.source, data.target, Requote(data.attrs, key)) = visual

\* C9: every visual edge has a non-negative line width, and the width is 1.0
\* when the edge has no penwidth attribute.
C9_WidthNonNegative ==
    EdgeAdded =>
        /\ visual.width.k \in {"fin", "inf"}
        /\ visual.width.v >= 0
        /\ "penwidth" \notin DOMAIN data.attrs => visual.width = Fin(Scale)

-----------------------------------------------------------------------------
(* Claims about the cluster colours *)

\* C2: two runs whose cluster maps have the same set of distinct labels
\* produce the same label-to-colour table, with exactly one entry per
\* distinct label and the border #2B7CE9 in each.
C2_SameLabelsSameStyles ==
    (styles1.ran /\ styles2.ran
        /\ unique_clusters(clusters1) = unique_clusters(clusters2)) =>
      /\ DOMAIN styles1.group_styles = unique_clusters(clusters1)
      /\ DOMAIN styles2.group_styles = unique_clusters(clusters2)
      /\ \A label \in unique_clusters(clusters1) :
            /\ styles1.group_styles[label] = styles2.group_styles[label]
            /\ styles1.group_styles[label].color.border = sBorder

-----------------------------------------------------------------------------
(* Claims about the cluster map *)

IsCluster(g) == startswith(strip(g.name, {Q}), sCluster)

\* The label C3 gives a cluster: its declared label with the quoting and the
\* list wrapping removed, or its identifier when it declares none.
ClaimedLabel(g) ==
    LET l == IF g.label.t = "list" THEN Str(g.label.s) ELSE g.label
    IN  IF l.t = "None" THEN strip(g.name, {Q}) ELSE strip(l.s, {Q})

NodeNames(g) == {strip(g.nodes[i], {Q}) : i \in DOMAIN g.nodes}

\* The clusters C3 puts the node in: the cluster subgraphs it is nested in,
\* at any depth.
ClustersAround(graph, node) ==
    {g \in {graph.subgraphs[i] : i \in DOMAIN graph.subgraphs} :
        /\ IsCluster(g)
        /\ \/ node \in NodeNames(g)
           \/ \E j \in DOMAIN g.subgraphs : node \in NodeNames(g.subgraphs[j])}
    \cup
    {h \in UNION {{g.subgraphs[j] : j \in DOMAIN g.subgraphs} :
                    g \in {graph.subgraphs[i] : i \in DOMAIN graph.subgraphs}} :
        IsCluster(h) /\ node \in NodeNames(h)}

AllNodeNames(graph) ==
    UNION {NodeNames(graph.subgraphs[i])
             \cup UNION {NodeNames(graph.subgraphs[i].subgraphs[j]) :
                           j \in DOMAIN graph.subgraphs[i].subgraphs} :
           i \in DOMAIN graph.subgraphs}

\* C3: a node is a key of the cluster map iff it is nested, at any depth, in
\* a subgraph whose name starts with cluster_, and its value is the label of
\* such a cluster (the declared label, or the identifier without one).
C3_ClusterMapCoversNestedNodes ==
    parsePc = "done" =>
        /\ DOMAIN clusters = {n \in AllNodeNames(dot) : ClustersAround(dot, n) # {}}
        /\ \A n \in DOMAIN clusters :
              clusters[n] \in {ClaimedLabel(g) : g \in ClustersAround(dot, n)}

-----------------------------------------------------------------------------
(* Claims about main and inject_custom_js *)

Stages == <<"args", "isfile", "parse", "build", "render", "inject">>

\* C4: a wrong argument count, a missing input file, a parse error and a
\* render error each end the run with exit status 1 and no later stage
\* runs; a run whose load and render succeed ends with exit status 0, also
\* when the injection fails or finds no closing body marker.
C4_RunOutcome ==
    /\ \A i \in DOMAIN stagesRun :
          /\ stagesRun[i].stage = Stages[i]
          /\ (stagesRun[i].stage # "inject" /\ stagesRun[i].outcome # "ok") =>
                (i = Len(stagesRun) /\ pc = "exited" /\ exitStatus = 1)
    /\ (pc = "exited" /\ Len(stagesRun) >= 5 /\ stagesRun[5].outcome = "ok") =>
          (exitStatus = 0 /\ Len(stagesRun) = 6)
    /\ exitStatus = 0 =>
          \A i \in 1..5 : i \in DOMAIN stagesRun /\ stagesRun[i].outcome = "ok"
    /\ pc # "exited" => exitStatus = NotExited

\* A run that ended with status 0 although the injection failed.
C4_Witness ==
    /\ pc = "exited" /\ exitStatus = 0
    /\ injectOutcome = "read_fails"
    /\ Len(stagesRun) = 6

\* The (1-based) places at which the closing body marker occurs in s.
MarkerPlaces(s) ==
    {i \in 1..Len(s) : i + 6 <= Len(s) /\ SubSeq(s, i, i + 6) = sBodyClose}

InjectReturned == pc = "exited" /\ injectOutcome # "none"

\* C5: on a file without a closing body marker inject_custom_js returns
\* normally, never opens the file for writing and leaves its content as it
\* was.
C5_NoMarkerFileUntouched ==
    (InjectReturned /\ MarkerPlaces(htmlBefore) = {}) =>
        /\ html = htmlBefore
        /\ ~openedForWrite
        /\ injectOutcome \in {"no_body", "read_fails"}
        /\ exitStatus = 0

\* The file was read, holds text and half a marker, but no marker.
C5_Witness ==
    /\ InjectReturned /\ injectOutcome = "no_body"
    /\ MarkerPlaces(htmlBefore) = {}
    /\ Len(htmlBefore) >= 7

\* C6: on a file with a closing body marker (that opens for reading and for
\* writing) the new content is the old content up to its last marker, the
\* script block, and the old content from that marker on: the block ends
\* right before the last marker of the new content, and cutting it out
\* gives the old content back.
C6_BlockBeforeLastMarker ==
    (InjectReturned /\ MarkerPlaces(htmlBefore) # {}
        /\ injectOutcome \notin {"read_fails", "write_fails"}) =>
        LET last == CHOOSE i \in MarkerPlaces(htmlBefore) :
                        \A j \in MarkerPlaces(htmlBefore) : j <= i
            n == Len(custom_js)
        IN  /\ injectOutcome = "injected"
            /\ openedForWrite
            /\ html = SubSeq(htmlBefore, 1, last - 1) \o custom_js
                        \o SubSeq(htmlBefore, last, Len(htmlBefore))
            /\ \A j \in MarkerPlaces(html) : j <= last + n
            /\ last + n \in MarkerPlaces(html)
            /\ SubSeq(html, last, last + n - 1) = custom_js
            /\ SubSeq(html, 1, last - 1) \o SubSeq(html, last + n, Len(html))
                 = htmlBefore

\* The block was injected into a file with two markers.
C6_Witness ==
    /\ InjectReturned /\ injectOutcome = "injected"
    /\ Cardinality(MarkerPlaces(htmlBefore)) >= 2

-----------------------------------------------------------------------------
(* Claims about the click handler *)

\* Whether the page hides what carries the flag: an absent hidden property
\* shows it, as false does.
IsHidden(hidden) == hidden = "true"

SameVisibility(f, g) ==
    /\ \A n \in ClickNodes : IsHidden(f.nodes[n]) = IsHidden(g.nodes[n])
    /\ \A e \in DOMAIN edges : IsHidden(f.edges[e]) = IsHidden(g.edges[e])

NothingHidden(f) ==
    /\ \A n \in ClickNodes : ~IsHidden(f.nodes[n])
    /\ \A e \in DOMAIN edges : ~IsHidden(f.edges[e])

Adjacent(n) ==
    {m \in ClickNodes :
        \E e \in DOMAIN edges :
            \/ edges[e].from = n /\ edges[e].to = m
            \/ edges[e].from = m /\ edges[e].to = n}

Incident(n) == {e \in DOMAIN edges : n \in {edges[e].from, edges[e].to}}

OneNodeClicked(click) == click # NoClick /\ Cardinality(click) = 1

\* C10: a click on exactly one node n, with nothing hidden before, hides
\* exactly the nodes adjacent to n and the edges incident to n; two
\* consecutive clicks on the same node leave every node and edge as visible
\* or hidden as before the first of them; a click on no node or on several
\* nodes changes no flag.
C10_ClickToggle ==
    /\ (OneNodeClicked(click1) /\ NothingHidden(prev1)) =>
          \A n \in click1 :
             /\ \A m \in ClickNodes : IsHidden(nodesHidden[m]) <=> m \in Adjacent(n)
             /\ \A e \in DOMAIN edges : IsHidden(edgesHidden[e]) <=> e \in Incident(n)
    /\ (OneNodeClicked(click1) /\ click2 = click1) => SameVisibility(Flags, prev2)
    /\ (click1 # NoClick /\ Cardinality(click1) # 1) => Flags = prev1

\* A node with a neighbour was clicked twice in a row; the second click
\* changed what the page shows, and something is hidden after it.
C10_Witness ==
    /\ OneNodeClicked(click1) /\ click2 = click1
    /\ \A n \in click1 : Adjacent(n) \ {n} # {}
    /\ ~NothingHidden(Flags)
    /\ ~SameVisibility(Flags, prev1)

=============================================================================
